---------------------------- MODULE Spec2Model ----------------------------
(***************************************************************************)
(* Model of guia-compensacao-mg: the REST API over the four tables         *)
(* (src/backend/server.js, in its libsql and its sqlite3 variant), the     *)
(* two WFS proxy routes, and the browser controller (src/unnamed/part_000).*)
(*                                                                         *)
(* Text values are sequences of one-character tokens, so that LOWER, LIKE, *)
(* trim and toUpperCase are computed character by character.  SQL NULL is  *)
(* the one-token sequence Null, whose token is no character.               *)
(***************************************************************************)
EXTENDS Integers, Sequences, FiniteSets, Bags, TLC

VARIABLES
  variant,      \* which server of src/backend/server.js runs: "libsql" | "sqlite3"
  normas,       \* table normas: set of rows [id, nome, link, preambulo]
  tipos,        \* table tipos_compensacao: set of rows [id, nome]
  modalidades,  \* table modalidades: set of rows [id, tipo_id, nome, ...]
  assoc,        \* table normas_tipos_compensacao: bag of rows [tipo_id, norma_id]
  resp,         \* the last request served and the response sent for it
  upstream,     \* the upstream GET requests axios has made (URLs, in order)
  feTipos,      \* controller: let tipos
  feModalidades,\* controller: let modalidades
  feNormas,     \* controller: let normas
  fePhase,      \* controller: "loading" | "ready"
  loadPending,  \* controller: the initial fetches still in flight
  loadGot,      \* controller: results of the initial fetches already settled
  tipoSelect,   \* controller: [options, value] of the <select>
  lista,        \* controller: #lista-modalidades: its <li>s [text, id, listener, active]
  detalhes,     \* controller: #detalhes-modalidade: [display, modalidade, campos]
  siscalBtn,    \* controller: #siscal-btn-container: [display, html]
  normasDiv,    \* controller: #normas-relacionadas: [display, items]
  inflight,     \* controller: related-norms fetches awaited by displayModalidades
  clicked,      \* history: the modalidade clicked since the last change of tipoSelect
  fetched       \* history: the related-norms fetch that settled last [tipoId, ok, data]

apiVars   == <<variant, normas, tipos, modalidades, assoc, resp>>
proxyVars == <<upstream>>
feVars    == <<feTipos, feModalidades, feNormas, fePhase, loadPending, loadGot,
               tipoSelect, lista, detalhes, siscalBtn, normasDiv, inflight, clicked,
               fetched>>
vars      == <<apiVars, proxyVars, feVars>>

---------------------------------------------------------------------------
(* Bounds of the model. *)

\* largest rowid a table hands out; inserts beyond it are not explored
MaxId == 2
\* largest number of rows of normas_tipos_compensacao explored
MaxAssoc == 2
\* largest number of rows the four tables hold together
MaxRows == 3
\* largest number of upstream requests explored
MaxUpstream == 2
\* largest number of related-norms fetches in flight at once
MaxInflight == 2

---------------------------------------------------------------------------
(* Text. *)

Null == <<"NULL">>
IsNull(v) == v = Null
\* a field the JSON body does not carry (undefined in req.body)
Undefined == <<"undefined">>

AsciiUpper == <<"A","B","C","D","E","F","G","H","I","J","K","L","M",
                "N","O","P","Q","R","S","T","U","V","W","X","Y","Z">>
AsciiLower == <<"a","b","c","d","e","f","g","h","i","j","k","l","m",
                "n","o","p","q","r","s","t","u","v","w","x","y","z">>
\* one letter outside ASCII, in its two cases ("A~" is U+00C3, "a~" is U+00E3)
UpperTilde == "A~"
LowerTilde == "a~"

IndexIn(c, letters) == CHOOSE i \in 1..Len(letters) : letters[i] = c
IsIn(c, letters) == \E i \in 1..Len(letters) : letters[i] = c

\* SQLite lower(): folds the 26 ASCII letters only
SqlLowerChar(c) == IF IsIn(c, AsciiUpper) THEN AsciiLower[IndexIn(c, AsciiUpper)] ELSE c
SqlLower(v) == IF IsNull(v) THEN Null ELSE [i \in 1..Len(v) |-> SqlLowerChar(v[i])]

\* String.prototype.toLowerCase / toUpperCase: fold every cased letter
JsLowerChar(c) ==
  IF IsIn(c, AsciiUpper) THEN AsciiLower[IndexIn(c, AsciiUpper)]
  ELSE IF c = UpperTilde THEN LowerTilde ELSE c
JsUpperChar(c) ==
  IF IsIn(c, AsciiLower) THEN AsciiUpper[IndexIn(c, AsciiLower)]
  ELSE IF c = LowerTilde THEN UpperTilde ELSE c
toLowerCase(s) == [i \in 1..Len(s) |-> JsLowerChar(s[i])]
toUpperCase(s) == [i \in 1..Len(s) |-> JsUpperChar(s[i])]

\* String.prototype.trim: drop leading and trailing white space
RECURSIVE TrimLeft(_)
TrimLeft(s) == IF s # <<>> /\ Head(s) = " " THEN TrimLeft(Tail(s)) ELSE s
RECURSIVE TrimRight(_)
TrimRight(s) ==
  IF s # <<>> /\ s[Len(s)] = " " THEN TrimRight(SubSeq(s, 1, Len(s) - 1)) ELSE s
trim(s) == TrimRight(TrimLeft(s))

\* SQLite LIKE: % matches any run, _ any one character, a letter matches
\* itself in either ASCII case; NULL LIKE p is not true
LikeCharEq(a, b) == SqlLowerChar(a) = SqlLowerChar(b)
RECURSIVE LikeMatch(_, _)
LikeMatch(s, p) ==
  IF p = <<>> THEN s = <<>>
  ELSE IF Head(p) = "%" THEN LikeMatch(s, Tail(p)) \/ (s # <<>> /\ LikeMatch(Tail(s), p))
  ELSE IF Head(p) = "_" THEN s # <<>> /\ LikeMatch(Tail(s), Tail(p))
  ELSE s # <<>> /\ LikeCharEq(Head(s), Head(p)) /\ LikeMatch(Tail(s), Tail(p))
SqlLike(v, p) == ~IsNull(v) /\ LikeMatch(v, p)

\* the unit code of a character (the order memcmp sees under BINARY collation)
Code(c) ==
  IF IsIn(c, AsciiUpper) THEN 64 + IndexIn(c, AsciiUpper)
  ELSE IF IsIn(c, AsciiLower) THEN 96 + IndexIn(c, AsciiLower)
  ELSE CASE c = " " -> 32 [] c = "%" -> 37 [] c = "_" -> 95
         [] c = UpperTilde -> 50051 [] c = LowerTilde -> 50083

\* ORDER BY nome: NULL first, then text in BINARY collation
RECURSIVE TextLessEq(_, _)
TextLessEq(a, b) ==
  IF a = <<>> THEN TRUE
  ELSE IF b = <<>> THEN FALSE
  ELSE IF Code(Head(a)) # Code(Head(b)) THEN Code(Head(a)) < Code(Head(b))
  ELSE TextLessEq(Tail(a), Tail(b))
OrderLessEq(a, b) ==
  IF IsNull(a) THEN TRUE ELSE IF IsNull(b) THEN FALSE ELSE TextLessEq(a, b)

---------------------------------------------------------------------------
(* The data store: what the SQL statements of server.js do to the tables. *)

Ids(T) == {r.id : r \in T}
MaxOf(S) == CHOOSE m \in S : \A x \in S : x <= m
\* a tipo_id column holding NULL
NullId == 0

\* SELECT * FROM t: the rows in rowid order
RECURSIVE RowsById(_)
RowsById(T) ==
  IF T = {} THEN <<>>
  ELSE LET r == CHOOSE x \in T : \A y \in T : x.id <= y.id
       IN <<r>> \o RowsById(T \ {r})

\* ORDER BY nome over rows that arrive in rowid order (insertion, stable)
RECURSIVE InsertByNome(_, _)
InsertByNome(r, rows) ==
  IF rows = <<>> THEN <<r>>
  ELSE IF OrderLessEq(Head(rows).nome, r.nome) THEN <<Head(rows)>> \o InsertByNome(r, Tail(rows))
  ELSE <<r>> \o rows
RECURSIVE OrderByNome(_)
OrderByNome(rows) ==
  IF rows = <<>> THEN <<>>
  ELSE InsertByNome(rows[Len(rows)], OrderByNome(SubSeq(rows, 1, Len(rows) - 1)))

\* (mutant) the next rowid taken from the number of rows
NextRowIdByCount(T) == Cardinality(T) + 1
\* rowid of the next INSERT: one more than the largest rowid in the table
NextRowId(T) == IF T = {} THEN 1 ELSE MaxOf(Ids(T)) + 1

\* an undefined argument is bound as NULL
Bind(v) == IF v = Undefined THEN Null ELSE v
BindId(v) == v

\* WHERE LOWER(nome) LIKE ? OR LOWER(link) LIKE ? OR LOWER(preambulo) LIKE ?
NormaMatches(r, pattern) ==
  \/ SqlLike(SqlLower(r.nome), pattern)
  \/ SqlLike(SqlLower(r.link), pattern)
  \/ SqlLike(SqlLower(r.preambulo), pattern)

\* if (searchTerm): undefined and "" are falsy
Truthy(t) == t # Undefined /\ t # <<>>

\* the query GET /normas builds and runs
SelectNormas(T, searchTerm) ==
  LET lowerSearchTerm == <<"%">> \o toLowerCase(searchTerm) \o <<"%">>
      hit == IF Truthy(searchTerm) THEN {r \in T : NormaMatches(r, lowerSearchTerm)} ELSE T
  IN OrderByNome(RowsById(hit))

\* (mutant) a join that gives a norma once however many join rows it has
RepeatOnce(row, n) == IF n = 0 THEN <<>> ELSE <<row>>
\* n result rows of the same norma
RECURSIVE Repeat(_, _)
Repeat(row, n) == IF n = 0 THEN <<>> ELSE <<row>> \o Repeat(row, n - 1)

\* normas n JOIN normas_tipos_compensacao ntc ON n.id = ntc.norma_id, kept to
\* the join rows of the given tipos: a norma comes once per join row
RECURSIVE JoinRows(_, _, _)
JoinRows(rows, links, tipoIds) ==
  IF rows = <<>> THEN <<>>
  ELSE LET n == Head(rows)
           on == {l \in BagToSet(links) : l.norma_id = n.id /\ l.tipo_id \in tipoIds}
           copies == BagCardinality([l \in on |-> CopiesIn(l, links)])
       IN Repeat(n, copies) \o JoinRows(Tail(rows), links, tipoIds)

\* (mutant) the join without its WHERE ntc.tipo_id = ?
JoinNormasAnyTipo(N, links, tipoId) ==
  JoinRows(RowsById(N), links, {l.tipo_id : l \in BagToSet(links)})
\* SELECT n.* FROM normas n JOIN normas_tipos_compensacao ntc
\*   ON n.id = ntc.norma_id WHERE ntc.tipo_id = ?
JoinNormas(N, links, tipoId) == JoinRows(RowsById(N), links, {tipoId})

\* the statement has no ORDER BY: its rows come in any order
Orderings(rows) ==
  { [i \in DOMAIN rows |-> rows[p[i]]] : p \in Permutations(DOMAIN rows) }

\* the foreign key modalidades.tipo_id -> tipos_compensacao.id, kept by the store
FkHolds(tipoId, T) == tipoId = NullId \/ tipoId \in Ids(T)
FkReferenced(tipoId, M) == \E m \in M : m.tipo_id = tipoId

\* messages of the store
NoError == "none"
ErrUnavailable == "SQLITE_BUSY: store unavailable"
ErrForeignKey == "SQLITE_CONSTRAINT: FOREIGN KEY constraint failed"
ErrSyntax == "SQLITE_ERROR: near \"WHERE\": syntax error"

RowCount == Cardinality(normas) + Cardinality(tipos) + Cardinality(modalidades) + BagCardinality(assoc)
\* the model explores an INSERT only while the tables stay inside the bounds
RoomFor(T) == RowCount < MaxRows /\ NextRowId(T) <= MaxId

---------------------------------------------------------------------------
(* The REST API layer: one action per route handler of server.js. *)

NoBody == [none |-> TRUE]
NoData == <<>>

\* what a request and its response look like in resp
Answer(op, id, q, body, dbError, status, message, error, data, newId) ==
  [op |-> op, id |-> id, q |-> q, body |-> body, dbError |-> dbError,
   status |-> status, message |-> message, error |-> error, data |-> data,
   newId |-> newId]

\* (mutant) a handler that answers a failed store operation with 500
CaughtAsServerError(op, id, q, body, dbError) ==
  Answer(op, id, q, body, dbError, 500, "", dbError, NoData, 0)
\* catch (error) { res.status(400).json({ error: error.message }) }
CatchStatus == 400
Caught(op, id, q, body, dbError) ==
  Answer(op, id, q, body, dbError, CatchStatus, "", dbError, NoData, 0)

\* res.status(200).json({ data: result.rows })
Listed(op, id, q, rows) == Answer(op, id, q, NoBody, NoError, 200, "", "", rows, 0)

\* the outcome of db.execute / db.run when nothing of the statement itself fails
Outcome(dbFail) == IF dbFail THEN ErrUnavailable ELSE NoError

\* the fields of a modalidade, in the order of the INSERT
ModalidadeRow(id, p) ==
  [id |-> id, tipo_id |-> BindId(p.tipo_id), nome |-> Bind(p.nome),
   proporcao |-> Bind(p.proporcao), forma |-> Bind(p.forma),
   especificidades |-> Bind(p.especificidades), vantagens |-> Bind(p.vantagens),
   desvantagens |-> Bind(p.desvantagens), observacao |-> Bind(p.observacao),
   documentos |-> Bind(p.documentos)]
NormaRow(id, b) ==
  [id |-> id, nome |-> Bind(b.nome), link |-> Bind(b.link), preambulo |-> Bind(b.preambulo)]
TipoRow(id, b) == [id |-> id, nome |-> Bind(b.nome)]

\* request inputs explored
RequestIds == 1..MaxId
Queries == {Undefined, <<>>, <<"B">>, <<"_">>}
NormaBodies ==
  { [nome |-> <<"B", "a">>, link |-> <<"a">>, preambulo |-> <<"A", "b">>],
    [nome |-> <<"a", "b">>, link |-> Undefined, preambulo |-> Undefined] }
TipoBodies == { [nome |-> <<"S", "N", "U", "C">>], [nome |-> Undefined] }
ModalidadeBodies ==
  { [tipo_id |-> t, nome |-> <<"P">>, proporcao |-> <<"a">>, forma |-> Undefined,
     especificidades |-> Undefined, vantagens |-> Undefined, desvantagens |-> Undefined,
     observacao |-> <<"b">>, documentos |-> Undefined] : t \in {NullId} \cup RequestIds }
AssocBodies == [tipo_id : RequestIds, norma_id : RequestIds]

\* the first server awaits @libsql/client, the second calls sqlite3
Variants == {"libsql", "sqlite3"}

\* app.get("/api/v2/normas")
GetNormas(q, dbFail) ==
  /\ resp' = IF dbFail THEN Caught("GET normas", 0, q, NoBody, Outcome(dbFail))
             ELSE Listed("GET normas", 0, q, SelectNormas(normas, q))
  /\ UNCHANGED <<variant, normas, tipos, modalidades, assoc>>

\* app.get("/api/v2/tipos")
GetTipos(dbFail) ==
  /\ resp' = IF dbFail THEN Caught("GET tipos", 0, Undefined, NoBody, Outcome(dbFail))
             ELSE Listed("GET tipos", 0, Undefined, RowsById(tipos))
  /\ UNCHANGED <<variant, normas, tipos, modalidades, assoc>>

\* app.get("/api/v2/modalidades")
GetModalidades(dbFail) ==
  /\ resp' = IF dbFail THEN Caught("GET modalidades", 0, Undefined, NoBody, Outcome(dbFail))
             ELSE Listed("GET modalidades", 0, Undefined, RowsById(modalidades))
  /\ UNCHANGED <<variant, normas, tipos, modalidades, assoc>>

\* app.get("/api/v2/tipos/:id/normas"), in the sqlite3 server
\* app.get("/api/v2/normas-tipos-compensacao/:tipo_id")
GetNormasDoTipo(id, dbFail) ==
  /\ IF dbFail
     THEN resp' = Caught("GET tipos/:id/normas", id, Undefined, NoBody, Outcome(dbFail))
     ELSE \E rows \in Orderings(JoinNormas(normas, assoc, id)) :
            resp' = Listed("GET tipos/:id/normas", id, Undefined, rows)
  /\ UNCHANGED <<variant, normas, tipos, modalidades, assoc>>

\* INSERT INTO t (...) VALUES (...)
InsertInto(T, row) == T \cup {row}
\* (mutant) an UPDATE that leaves a column alone when the body lacks its field
UpdateNormasKeepingAbsent(T, id, b) ==
  {IF r.id = id
   THEN [id |-> r.id,
         nome |-> IF b.nome = Undefined THEN r.nome ELSE b.nome,
         link |-> IF b.link = Undefined THEN r.link ELSE b.link,
         preambulo |-> IF b.preambulo = Undefined THEN r.preambulo ELSE b.preambulo]
   ELSE r : r \in T}
\* UPDATE normas SET nome = ?, link = ?, preambulo = ? WHERE id = ?
UpdateNormas(T, id, b) == {IF r.id = id THEN NormaRow(r.id, b) ELSE r : r \in T}
\* UPDATE tipos_compensacao SET nome = ? WHERE id = ?
UpdateTipos(T, id, b) == {IF r.id = id THEN TipoRow(r.id, b) ELSE r : r \in T}
\* UPDATE modalidades SET tipo_id = ?, nome = ?, ... WHERE id = ?
UpdateModalidades(T, id, p) == {IF r.id = id THEN ModalidadeRow(r.id, p) ELSE r : r \in T}
\* (mutant) a DELETE without its WHERE id = ?
DeleteFromNoWhere(T, id) == {}
\* DELETE FROM t WHERE id = ?
DeleteFrom(T, id) == {r \in T : r.id # id}
\* rows the statement touched (rowsAffected, this.changes)
Changes(T, id) == Cardinality({r \in T : r.id = id})

\* res.status(201).json(...): the libsql server sends a message (and, for a
\* tipo, the id), the sqlite3 server sends { id: this.lastID }
Created(op, body, message, id, withId) ==
  Answer(op, 0, Undefined, body, NoError, 201,
         IF variant = "libsql" THEN message ELSE "", "", NoData,
         IF variant = "sqlite3" \/ withId THEN id ELSE 0)

\* res.status(200).json({ message })
Updated(op, id, body, message) ==
  Answer(op, id, Undefined, body, NoError, 200, message, "", NoData, 0)

\* the DELETE handlers: only the sqlite3 server looks at this.changes
Deleted(op, id, changes, message, notFound) ==
  IF variant = "sqlite3" /\ changes = 0
  THEN Answer(op, id, Undefined, NoBody, NoError, 404, notFound, "", NoData, 0)
  ELSE Answer(op, id, Undefined, NoBody, NoError, 200, message, "", NoData, 0)

\* app.post("/api/v2/normas")
PostNorma(body, dbFail) ==
  LET err == Outcome(dbFail)
      id == NextRowId(normas)
  IN /\ err = NoError => RoomFor(normas)
     /\ normas' = IF err = NoError THEN InsertInto(normas, NormaRow(id, body)) ELSE normas
     /\ resp' = IF err # NoError THEN Caught("POST normas", 0, Undefined, body, err)
                ELSE Created("POST normas", body, "Norma criada com sucesso", id, FALSE)
     /\ UNCHANGED <<variant, tipos, modalidades, assoc>>

\* app.put("/api/v2/normas/:id")
PutNorma(id, body, dbFail) ==
  LET err == Outcome(dbFail)
  IN /\ normas' = IF err = NoError THEN UpdateNormas(normas, id, body) ELSE normas
     /\ resp' = IF err # NoError THEN Caught("PUT normas", id, Undefined, body, err)
                ELSE Updated("PUT normas", id, body, "Norma atualizada com sucesso")
     /\ UNCHANGED <<variant, tipos, modalidades, assoc>>

\* app.delete("/api/v2/normas/:id")
DeleteNorma(id, dbFail) ==
  LET err == Outcome(dbFail)
  IN /\ normas' = IF err = NoError THEN DeleteFrom(normas, id) ELSE normas
     /\ resp' = IF err # NoError THEN Caught("DELETE normas", id, Undefined, NoBody, err)
                ELSE Deleted("DELETE normas", id, Changes(normas, id),
                             "Norma deletada com sucesso", "Norma nao encontrada.")
     /\ UNCHANGED <<variant, tipos, modalidades, assoc>>

\* app.post("/api/v2/tipos")
PostTipo(body, dbFail) ==
  LET err == Outcome(dbFail)
      id == NextRowId(tipos)
  IN /\ err = NoError => RoomFor(tipos)
     /\ tipos' = IF err = NoError THEN InsertInto(tipos, TipoRow(id, body)) ELSE tipos
     /\ resp' = IF err # NoError THEN Caught("POST tipos", 0, Undefined, body, err)
                ELSE Created("POST tipos", body, "Tipo de compensacao criado com sucesso",
                             id, TRUE)
     /\ UNCHANGED <<variant, normas, modalidades, assoc>>

\* the statement of app.put("/api/v2/tipos/:id"): the sqlite3 server's text is
\* "UPDATE tipos_compensacao SET nome = ?, WHERE id = ?", which does not parse
PutTipoOutcome(dbFail) ==
  IF variant = "sqlite3" THEN ErrSyntax ELSE Outcome(dbFail)

\* app.put("/api/v2/tipos/:id")
PutTipo(id, body, dbFail) ==
  LET err == PutTipoOutcome(dbFail)
  IN /\ tipos' = IF err = NoError THEN UpdateTipos(tipos, id, body) ELSE tipos
     /\ resp' = IF err # NoError THEN Caught("PUT tipos", id, Undefined, body, err)
                ELSE Updated("PUT tipos", id, body, "Tipo atualizado com sucesso")
     /\ UNCHANGED <<variant, normas, modalidades, assoc>>

\* DELETE FROM tipos_compensacao: the store refuses to orphan a modalidade
DeleteTipoOutcome(id, dbFail) ==
  IF dbFail THEN ErrUnavailable
  ELSE IF FkReferenced(id, modalidades) THEN ErrForeignKey ELSE NoError

\* app.delete("/api/v2/tipos/:id")
DeleteTipo(id, dbFail) ==
  LET err == DeleteTipoOutcome(id, dbFail)
  IN /\ tipos' = IF err = NoError THEN DeleteFrom(tipos, id) ELSE tipos
     /\ resp' = IF err # NoError THEN Caught("DELETE tipos", id, Undefined, NoBody, err)
                ELSE Deleted("DELETE tipos", id, Changes(tipos, id),
                             "Tipo deletado com sucesso", "Tipo nao encontrado.")
     /\ UNCHANGED <<variant, normas, modalidades, assoc>>

\* the insert of a join row: normas_tipos_compensacao declares no key over
\* (tipo_id, norma_id) and no foreign key, so only an unavailable store fails it
PostAssocOutcome(body, dbFail) == Outcome(dbFail)

\* app.post("/api/v2/normas-tipos-compensacao"): a route of the libsql server only
PostAssoc(body, dbFail) ==
  LET err == PostAssocOutcome(body, dbFail)
  IN /\ variant = "libsql"
     /\ err = NoError => (BagCardinality(assoc) < MaxAssoc /\ RowCount < MaxRows)
     /\ assoc' = IF err = NoError
                 THEN assoc (+) SetToBag({[tipo_id |-> BindId(body.tipo_id),
                                           norma_id |-> BindId(body.norma_id)]})
                 ELSE assoc
     /\ resp' = IF err # NoError
                THEN Caught("POST normas-tipos-compensacao", 0, Undefined, body, err)
                ELSE Answer("POST normas-tipos-compensacao", 0, Undefined, body, NoError,
                            201, "Associacao criada com sucesso", "", NoData, 0)
     /\ UNCHANGED <<variant, normas, tipos, modalidades>>

\* INSERT INTO modalidades: the store checks tipo_id against tipos_compensacao
PostModalidadeOutcome(p, dbFail) ==
  IF dbFail THEN ErrUnavailable
  ELSE IF ~FkHolds(BindId(p.tipo_id), tipos) THEN ErrForeignKey ELSE NoError

\* app.post("/api/v2/modalidades")
PostModalidade(p, dbFail) ==
  LET err == PostModalidadeOutcome(p, dbFail)
      id == NextRowId(modalidades)
  IN /\ err = NoError => RoomFor(modalidades)
     /\ modalidades' = IF err = NoError
                       THEN InsertInto(modalidades, ModalidadeRow(id, p)) ELSE modalidades
     /\ resp' = IF err # NoError THEN Caught("POST modalidades", 0, Undefined, p, err)
                ELSE Created("POST modalidades", p, "Modalidade criada com sucesso", id, FALSE)
     /\ UNCHANGED <<variant, normas, tipos, assoc>>

\* UPDATE modalidades: the check applies to the rows the statement rewrites
PutModalidadeOutcome(id, p, dbFail) ==
  IF dbFail THEN ErrUnavailable
  ELSE IF Changes(modalidades, id) > 0 /\ ~FkHolds(BindId(p.tipo_id), tipos)
       THEN ErrForeignKey ELSE NoError

\* app.put("/api/v2/modalidades/:id")
PutModalidade(id, p, dbFail) ==
  LET err == PutModalidadeOutcome(id, p, dbFail)
  IN /\ modalidades' = IF err = NoError
                       THEN UpdateModalidades(modalidades, id, p) ELSE modalidades
     /\ resp' = IF err # NoError THEN Caught("PUT modalidades", id, Undefined, p, err)
                ELSE Updated("PUT modalidades", id, p, "Modalidade atualizada com sucesso")
     /\ UNCHANGED <<variant, normas, tipos, assoc>>

\* app.delete("/api/v2/modalidades/:id")
DeleteModalidade(id, dbFail) ==
  LET err == Outcome(dbFail)
  IN /\ modalidades' = IF err = NoError THEN DeleteFrom(modalidades, id) ELSE modalidades
     /\ resp' = IF err # NoError THEN Caught("DELETE modalidades", id, Undefined, NoBody, err)
                ELSE Deleted("DELETE modalidades", id, Changes(modalidades, id),
                             "Modalidade deletada com sucesso", "Modalidade nao encontrada.")
     /\ UNCHANGED <<variant, normas, tipos, assoc>>

---------------------------------------------------------------------------
(* The page before its script has run, and the proxy before any request. *)

\* <option value="">: the value of the empty option
EmptyValue == -1
NoResponse == Answer("none", 0, Undefined, NoBody, NoError, 0, "", "", NoData, 0)
\* no related-norms fetch has settled yet
NoFetch == [tipoId |-> EmptyValue, ok |-> TRUE, data |-> <<>>]

PageInit ==
  /\ feTipos = <<>>
  /\ feModalidades = <<>>
  /\ feNormas = <<>>
  /\ fePhase = "loading"
  /\ loadPending = {"tipos", "modalidades", "normas"}
  /\ loadGot = [e \in {} |-> <<>>]
  /\ tipoSelect = [options |-> <<>>, value |-> EmptyValue]
  /\ lista = <<>>
  /\ detalhes = [display |-> "css", modalidade |-> 0, campos |-> <<>>]
  /\ siscalBtn = [display |-> "css", html |-> ""]
  /\ normasDiv = [display |-> "css", items |-> <<>>]
  /\ inflight = <<>>
  /\ clicked = 0
  /\ fetched = NoFetch

---------------------------------------------------------------------------
(* The API over an initially empty store. *)

Init ==
  /\ variant \in Variants
  /\ normas = {}
  /\ tipos = {}
  /\ modalidades = {}
  /\ assoc = EmptyBag
  /\ resp = NoResponse
  /\ upstream = <<>>
  /\ PageInit

\* a request is taken when the response to the one before has left; serving
\* it leaves the proxy and the page alone
Served(A) == resp = NoResponse /\ A /\ UNCHANGED <<proxyVars, feVars>>

\* res.json(...) has sent the response: the exchange is over
Deliver ==
  /\ resp # NoResponse
  /\ resp' = NoResponse
  /\ UNCHANGED <<variant, normas, tipos, modalidades, assoc, proxyVars, feVars>>

Next ==
  \/ \E q \in Queries, dbFail \in BOOLEAN : Served(GetNormas(q, dbFail))
  \/ \E dbFail \in BOOLEAN : Served(GetTipos(dbFail))
  \/ \E dbFail \in BOOLEAN : Served(GetModalidades(dbFail))
  \/ \E id \in RequestIds, dbFail \in BOOLEAN : Served(GetNormasDoTipo(id, dbFail))
  \/ \E b \in NormaBodies, dbFail \in BOOLEAN : Served(PostNorma(b, dbFail))
  \/ \E id \in RequestIds, b \in NormaBodies, dbFail \in BOOLEAN : Served(PutNorma(id, b, dbFail))
  \/ \E id \in RequestIds, dbFail \in BOOLEAN : Served(DeleteNorma(id, dbFail))
  \/ \E b \in TipoBodies, dbFail \in BOOLEAN : Served(PostTipo(b, dbFail))
  \/ \E id \in RequestIds, b \in TipoBodies, dbFail \in BOOLEAN : Served(PutTipo(id, b, dbFail))
  \/ \E id \in RequestIds, dbFail \in BOOLEAN : Served(DeleteTipo(id, dbFail))
  \/ \E b \in AssocBodies, dbFail \in BOOLEAN : Served(PostAssoc(b, dbFail))
  \/ \E p \in ModalidadeBodies, dbFail \in BOOLEAN : Served(PostModalidade(p, dbFail))
  \/ \E id \in RequestIds, p \in ModalidadeBodies, dbFail \in BOOLEAN :
       Served(PutModalidade(id, p, dbFail))
  \/ \E id \in RequestIds, dbFail \in BOOLEAN : Served(DeleteModalidade(id, dbFail))
  \/ Deliver

Spec == Init /\ [][Next]_vars

---------------------------------------------------------------------------
(* Properties of the API. *)

tables == <<normas, tipos, modalidades, assoc>>

DeleteOps == {"DELETE normas", "DELETE tipos", "DELETE modalidades"}
PutOps == {"PUT normas", "PUT tipos", "PUT modalidades"}
\* the table a by-id route works on, and what the listing route of that table
\* returns, given the three entity tables
TableOf(op, N, T, M) ==
  CASE op \in {"DELETE normas", "PUT normas", "POST normas"} -> N
    [] op \in {"DELETE tipos", "PUT tipos", "POST tipos"} -> T
    [] op \in {"DELETE modalidades", "PUT modalidades", "POST modalidades"} -> M
ListingOf(op, N, T, M) ==
  CASE op \in {"DELETE normas", "PUT normas", "POST normas"} -> SelectNormas(N, Undefined)
    [] op \in {"DELETE tipos", "PUT tipos", "POST tipos"} -> RowsById(T)
    [] op \in {"DELETE modalidades", "PUT modalidades", "POST modalidades"} -> RowsById(M)
Range(f) == {f[i] : i \in DOMAIN f}
Occurrences(rows, id) == Cardinality({i \in DOMAIN rows : rows[i].id = id})

\* C1: a DELETE by an id that matches no row of its table, the store not
\* failing, is answered 404 and changes no table.
C1_DeleteMissingIs404 ==
  [][ LET before == TableOf(resp'.op, normas, tipos, modalidades)
      IN (resp'.op \in DeleteOps /\ resp'.dbError = NoError /\ resp'.id \notin Ids(before))
         => (resp'.status = 404 /\ UNCHANGED tables) ]_vars

ContainsIgnoringCase(v, q) ==
  /\ ~IsNull(v)
  /\ \E i \in 1..(Len(v) - Len(q) + 1) :
       toLowerCase(SubSeq(v, i, i + Len(q) - 1)) = toLowerCase(q)
SortedByNome(rows) ==
  \A i \in 1..(Len(rows) - 1) : OrderLessEq(rows[i].nome, rows[i + 1].nome)

\* C3: GET /normas?q= with a non-empty q returns exactly the rows whose nome,
\* link or preambulo contains q, letter case ignored; with q absent or empty it
\* returns every row; in both cases ordered by nome ascending.
C3_SearchExact ==
  (resp.op = "GET normas" /\ resp.dbError = NoError)
    => LET want == IF resp.q # Undefined /\ resp.q # <<>>
                   THEN {r \in normas : \/ ContainsIgnoringCase(r.nome, resp.q)
                                        \/ ContainsIgnoringCase(r.link, resp.q)
                                        \/ ContainsIgnoringCase(r.preambulo, resp.q)}
                   ELSE normas
       IN /\ resp.status = 200
          /\ Range(resp.data) = want
          /\ Len(resp.data) = Cardinality(want)
          /\ SortedByNome(resp.data)

\* C4: a successful POST /tipos answers 201 with an id that no row of
\* tipos_compensacao had, and GET /tipos then lists exactly one row of that id,
\* with the posted nome.
C4_CreateTipoFreshId ==
  [][ (resp'.op = "POST tipos" /\ resp'.dbError = NoError)
      => LET listing == RowsById(tipos')
         IN /\ resp'.status = 201
            /\ resp'.newId \notin Ids(tipos)
            /\ Occurrences(listing, resp'.newId) = 1
            /\ \A i \in DOMAIN listing :
                 (listing[i].id = resp'.newId /\ resp'.body.nome # Undefined)
                   => listing[i].nome = resp'.body.nome
            /\ Range(listing) \cap tipos = tipos
    ]_vars
\* a second tipo was created, after other requests, and got its own id
C4_Witness ==
  /\ resp.op = "POST tipos" /\ resp.status = 201 /\ resp.newId = 2
  /\ Cardinality(tipos) = 2 /\ normas # {}

\* C5: after a successful PUT /normas/:id on an existing norma, GET /normas
\* returns the row of that id with nome, link and preambulo as the PUT gave
\* them, a field the body lacks being empty and not its old value; the ids and
\* the other rows are as before.
C5_PutNormaRoundTrip ==
  [][ (resp'.op = "PUT normas" /\ resp'.status = 200 /\ resp'.id \in Ids(normas))
      => LET listing == SelectNormas(normas', Undefined)
             given(v) == IF v = Undefined THEN Null ELSE v
         IN /\ Occurrences(listing, resp'.id) = 1
            /\ \A i \in DOMAIN listing :
                 listing[i].id = resp'.id
                   => /\ listing[i].nome = given(resp'.body.nome)
                      /\ listing[i].link = given(resp'.body.link)
                      /\ listing[i].preambulo = given(resp'.body.preambulo)
            /\ {r \in Range(listing) : r.id # resp'.id} = {r \in normas : r.id # resp'.id}
            /\ Len(listing) = Cardinality(normas)
    ]_vars
\* a norma that had a link was rewritten by a PUT without one, beside another norma
C5_Witness ==
  /\ resp.op = "PUT normas" /\ resp.status = 200 /\ resp.body.link = Undefined
  /\ \E r \in normas : r.id = resp.id /\ r.link = Null
  /\ Cardinality(normas) = 2

\* C6: a PUT whose id matches no row, the store being reachable, is answered
\* 200 with the success message and changes no table.
C6_PutMissingIs200 ==
  [][ LET before == TableOf(resp'.op, normas, tipos, modalidades)
      IN (resp'.op \in PutOps /\ resp'.dbError # ErrUnavailable
            /\ resp'.id \notin Ids(before))
         => (resp'.status = 200 /\ resp'.message # "" /\ UNCHANGED tables) ]_vars

\* C7: on every route, a failed store operation is answered 400 with the
\* store's message as `error`, and no table changes; so is the creation of a
\* modalidade whose tipo_id names no tipo.
C7_StoreFailureIs400 ==
  [][ /\ resp'.dbError # NoError
         => (resp'.status = 400 /\ resp'.error = resp'.dbError /\ UNCHANGED tables)
      /\ (resp'.op = "POST modalidades" /\ resp'.body.tipo_id # NullId
            /\ resp'.body.tipo_id \notin Ids(tipos))
         => (resp'.status = 400 /\ resp'.error # "" /\ UNCHANGED tables)
    ]_vars
\* the store refused a modalidade whose tipo_id names no tipo
C7_Witness ==
  /\ resp.op = "POST modalidades" /\ resp.dbError = ErrForeignKey
  /\ resp.body.tipo_id \notin Ids(tipos) /\ resp.status = 400

---------------------------------------------------------------------------
(* The WFS proxy routes.  URLs and bodies are strings; a query parameter is
   <<>> when the request does not carry it and <<value>> when it does. *)

WFS_BASE_URL == "http://geoserver.meioambiente.mg.gov.br/ows"
TypenameUCs == "ide_2010_mg_unidades_conservacao_estaduais_pol"
TypenameImoveis == "ide_2104_mg_imoveis_disponiveis_compensacao_ambiental_pto"
FalhaUCs == "Falha ao obter dados de UCs do SISEMA."
FalhaImoveis == "Falha ao obter dados de Imoveis do SISEMA."

\* `${WFS_BASE_URL}?service=WFS&version=2.0.0&request=GetFeature&typename=...`
GetFeatureUrl(typename) ==
  WFS_BASE_URL \o "?service=WFS&version=2.0.0&request=GetFeature&typename=" \o typename
    \o "&outputFormat=application/json"

\* if (req.query.bbox): a parameter that is absent or empty is falsy
ParamTruthy(param) == param # <<>> /\ param[1] # ""

\* (mutant) the URL with the filter sent under the name of the box
WfsUrlOneName(typename, query) ==
  GetFeatureUrl(typename)
    \o (IF ParamTruthy(query.bbox) THEN "&bbox=" \o query.bbox[1] ELSE "")
    \o (IF ParamTruthy(query.cql_filter) THEN "&bbox=" \o query.cql_filter[1] ELSE "")
\* let wfsUrl = ...; if (req.query.bbox) wfsUrl += ...; if (req.query.cql_filter) wfsUrl += ...
WfsUrl(typename, query) ==
  GetFeatureUrl(typename)
    \o (IF ParamTruthy(query.bbox) THEN "&bbox=" \o query.bbox[1] ELSE "")
    \o (IF ParamTruthy(query.cql_filter) THEN "&cql_filter=" \o query.cql_filter[1] ELSE "")

\* what axios.get can come back with: a 2xx body, or a rejection
UpstreamOutcomes ==
  { [ok |-> TRUE, body |-> "{\"type\":\"FeatureCollection\",\"features\":[]}"],
    [ok |-> FALSE, body |-> "connect ECONNREFUSED"],
    [ok |-> FALSE, body |-> "Request failed with status code 503"] }
ProxyQueries ==
  [bbox : {<<>>, <<"">>, <<"-44,-20,-43,-19">>},
   cql_filter : {<<>>, <<"">>, <<"nome LIKE 'A%'">>}]

\* the body of both handlers: one axios.get, then res.json(response.data) or
\* res.status(500).json({ error: <fixed message> })
ProxyRoute(op, typename, falha, query, outcome) ==
  /\ Len(upstream) < MaxUpstream
  /\ upstream' = Append(upstream, [url |-> WfsUrl(typename, query), outcome |-> outcome])
  /\ resp' = IF outcome.ok
             THEN Answer(op, 0, Undefined, query, NoError, 200, "", "", outcome.body, 0)
             ELSE Answer(op, 0, Undefined, query, NoError, 500, "", falha, "", 0)
  /\ UNCHANGED <<variant, normas, tipos, modalidades, assoc, feVars>>

\* app.get("/api/v2/sisema/unidades-conservacao")
GetUnidadesConservacao(query, outcome) ==
  ProxyRoute("GET sisema/unidades-conservacao", TypenameUCs, FalhaUCs, query, outcome)

\* app.get("/api/v2/sisema/imoveis-compensacao")
GetImoveisCompensacao(query, outcome) ==
  ProxyRoute("GET sisema/imoveis-compensacao", TypenameImoveis, FalhaImoveis, query, outcome)

NextProxy ==
  \/ \E query \in ProxyQueries, outcome \in UpstreamOutcomes :
       GetUnidadesConservacao(query, outcome)
  \/ \E query \in ProxyQueries, outcome \in UpstreamOutcomes :
       GetImoveisCompensacao(query, outcome)

SpecProxy == Init /\ [][NextProxy]_vars

ProxyOps == {"GET sisema/unidades-conservacao", "GET sisema/imoveis-compensacao"}
FixedUrl(op) ==
  IF op = "GET sisema/unidades-conservacao"
  THEN "http://geoserver.meioambiente.mg.gov.br/ows?service=WFS&version=2.0.0&request=GetFeature&typename=ide_2010_mg_unidades_conservacao_estaduais_pol&outputFormat=application/json"
  ELSE "http://geoserver.meioambiente.mg.gov.br/ows?service=WFS&version=2.0.0&request=GetFeature&typename=ide_2104_mg_imoveis_disponiveis_compensacao_ambiental_pto&outputFormat=application/json"
FixedMessage(op) ==
  IF op = "GET sisema/unidades-conservacao"
  THEN "Falha ao obter dados de UCs do SISEMA."
  ELSE "Falha ao obter dados de Imoveis do SISEMA."

\* what both readings of C8 share: one upstream request per call, whose body is
\* relayed unchanged with 200, or whose failure is answered 500 with the fixed
\* message of the route and nothing of the upstream's
ProxyRelays(sent, last) ==
  /\ Len(upstream') = Len(upstream) + 1
  /\ SubSeq(upstream', 1, Len(upstream)) = upstream
  /\ last.url = sent
  /\ last.outcome.ok => (resp'.status = 200 /\ resp'.data = last.outcome.body)
  /\ ~last.outcome.ok
       => (resp'.status = 500 /\ resp'.error = FixedMessage(resp'.op) /\ resp'.data = "")

\* C8 (as stated): the upstream URL is the fixed URL of the route with
\* &bbox=<value> appended when bbox is supplied and &cql_filter=<value> when
\* cql_filter is supplied; one upstream request per call; relay or fixed 500.
C8_ProxySupplied ==
  [][ resp'.op \in ProxyOps
      => LET query == resp'.body
             sent == FixedUrl(resp'.op)
                       \o (IF query.bbox # <<>> THEN "&bbox=" \o query.bbox[1] ELSE "")
                       \o (IF query.cql_filter # <<>>
                           THEN "&cql_filter=" \o query.cql_filter[1] ELSE "")
         IN ProxyRelays(sent, upstream'[Len(upstream')])
    ]_vars

\* C8 (amended): as above, a parameter being appended when it is supplied with
\* a non-empty value, an empty value counting as absent.
C8_ProxyNonEmpty ==
  [][ resp'.op \in ProxyOps
      => LET query == resp'.body
             given(param) == param # <<>> /\ param[1] # ""
             sent == FixedUrl(resp'.op)
                       \o (IF given(query.bbox) THEN "&bbox=" \o query.bbox[1] ELSE "")
                       \o (IF given(query.cql_filter)
                           THEN "&cql_filter=" \o query.cql_filter[1] ELSE "")
         IN ProxyRelays(sent, upstream'[Len(upstream')])
    ]_vars
\* a call with both parameters was relayed after an earlier call had failed
C8_Witness ==
  /\ resp.op = "GET sisema/unidades-conservacao" /\ resp.status = 200
  /\ resp.body.bbox = <<"-44,-20,-43,-19">> /\ resp.body.cql_filter # <<>>
  /\ Len(upstream) = 2 /\ ~upstream[1].outcome.ok

---------------------------------------------------------------------------
(* The browser controller (the DOMContentLoaded callback).  A style.display
   the script has not yet assigned is "css". *)

ErroAoCarregar == <<"Erro ao carregar dados. Verifique o console.">>
NenhumaModalidade == <<"Nenhuma modalidade encontrada para este tipo.">>
SiscalLink == "<a href=\"https://siscal.netlify.app/\" class=\"siscal-btn\">Calculo de Compensacao</a>"
Endpoints == {"tipos", "modalidades", "normas"}

\* a <li> of #lista-modalidades
MessageLi(text) == [text |-> text, id |-> 0, listener |-> FALSE, active |-> FALSE]
ModalidadeLi(m) == [text |-> m.nome, id |-> m.id, listener |-> TRUE, active |-> FALSE]

\* what the server sends for an endpoint of the initial load
ServerData(endpoint) ==
  CASE endpoint = "tipos" -> RowsById(tipos)
    [] endpoint = "modalidades" -> RowsById(modalidades)
    [] endpoint = "normas" -> SelectNormas(normas, Undefined)

\* fetchData: the data of a 2xx response, or [] after writing the error <li>
FetchResult(ok, data) == IF ok THEN data ELSE <<>>
\* (mutant) a failed fetch that leaves the list as it was
ListaKept(ok, current) == current
\* the catch of fetchData replaces the list by the error <li>
ListaAfterFetch(ok, current) == IF ok THEN current ELSE <<MessageLi(ErroAoCarregar)>>

\* t.id == tipoId, m.tipo_id == tipoId: null and the empty value equal no id
LooseEq(a, b) == a # NullId /\ b # EmptyValue /\ a = b

\* Array.prototype.filter / find over a sequence of rows, with the test
\* (r) => r[key] == value
Filter(rows, key, value) == SelectSeq(rows, LAMBDA r : LooseEq(r[key], value))
Found(rows, key, value) == Filter(rows, key, value) # <<>>
Find(rows, key, value) == Head(Filter(rows, key, value))

\* tipos.forEach: one <option> per tipo after the empty one
RECURSIVE OptionsOf(_)
OptionsOf(rows) ==
  IF rows = <<>> THEN <<>>
  ELSE <<[value |-> Head(rows).id, text |-> Head(rows).nome]>> \o OptionsOf(Tail(rows))
EmptyOption == [value |-> EmptyValue, text |-> <<"-- Selecione um Tipo --">>]

\* a fetch of loadInitialData settles; when it is the last, Promise.all
\* resolves and the rest of loadInitialData runs in the same turn
LoadSettles(endpoint, ok) ==
  LET got == [e \in (DOMAIN loadGot) \cup {endpoint} |->
                IF e = endpoint THEN FetchResult(ok, ServerData(endpoint)) ELSE loadGot[e]]
      last == loadPending = {endpoint}
  IN /\ fePhase = "loading"
     /\ endpoint \in loadPending
     /\ loadPending' = loadPending \ {endpoint}
     /\ loadGot' = got
     /\ lista' = ListaAfterFetch(ok, lista)
     /\ IF last
        THEN /\ feTipos' = got["tipos"]
             /\ feModalidades' = got["modalidades"]
             /\ feNormas' = got["normas"]
             /\ tipoSelect' = [options |-> <<EmptyOption>> \o OptionsOf(got["tipos"]),
                               value |-> EmptyValue]
             /\ fePhase' = "ready"
        ELSE UNCHANGED <<feTipos, feModalidades, feNormas, tipoSelect, fePhase>>
     /\ UNCHANGED <<detalhes, siscalBtn, normasDiv, inflight, clicked, fetched>>
     /\ UNCHANGED <<apiVars, proxyVars>>

\* the <li>s displayModalidades renders for tipoId
RECURSIVE ItemsOf(_)
ItemsOf(rows) ==
  IF rows = <<>> THEN <<>> ELSE <<ModalidadeLi(Head(rows))>> \o ItemsOf(Tail(rows))
\* (mutant) the list without the filter by tipo
RenderListaAll(tipoId) == ItemsOf(feModalidades)
\* modalidades.filter((m) => m.tipo_id == tipoId) rendered, or the message
RenderLista(tipoId) ==
  LET filteredModalidades == Filter(feModalidades, "tipo_id", tipoId)
  IN IF filteredModalidades = <<>>
     THEN (IF tipoId # EmptyValue THEN <<MessageLi(NenhumaModalidade)>> ELSE <<>>)
     ELSE ItemsOf(filteredModalidades)

\* (mutant) the container left showing the link
ShownBtn == [display |-> "block", html |-> SiscalLink]
\* siscalBtnContainer.style.display = "none"; siscalBtnContainer.innerHTML = ""
HiddenBtn == [display |-> "none", html |-> ""]

\* the change listener of tipoSelect: displayModalidades(tipoSelect.value) up
\* to its await (the fetch of the related norms is left in flight)
ChangeTipo(tipoId) ==
  LET fetches == tipoId # EmptyValue /\ Found(feTipos, "id", tipoId)
  IN /\ \E i \in DOMAIN tipoSelect.options : tipoSelect.options[i].value = tipoId
     /\ tipoId # tipoSelect.value
     /\ fetches => Len(inflight) < MaxInflight
     /\ tipoSelect' = [tipoSelect EXCEPT !.value = tipoId]
     /\ detalhes' = [detalhes EXCEPT !.display = "none"]
     /\ lista' = RenderLista(tipoId)
     /\ siscalBtn' = HiddenBtn
     /\ normasDiv' = IF tipoId = EmptyValue THEN [normasDiv EXCEPT !.display = "none"]
                     ELSE normasDiv
     /\ inflight' = IF fetches THEN Append(inflight, tipoId) ELSE inflight
     /\ clicked' = 0
     /\ UNCHANGED <<feTipos, feModalidades, feNormas, fePhase, loadPending, loadGot,
                    fetched>>
     /\ UNCHANGED <<apiVars, proxyVars>>

\* (mutant) a continuation that renders only for the tipo still selected
NormasPanelIfCurrent(tipoId, normasRelacionadas) ==
  IF tipoId # tipoSelect.value THEN normasDiv
  ELSE IF Len(normasRelacionadas) > 0
       THEN [display |-> "block",
             items |-> [i \in DOMAIN normasRelacionadas |->
                          [href |-> normasRelacionadas[i].link,
                           text |-> normasRelacionadas[i].nome]]]
       ELSE [display |-> "none", items |-> <<>>]
\* what displayModalidades(tipoId) makes of #normas-relacionadas after its await
NormasPanel(tipoId, normasRelacionadas) ==
  IF Len(normasRelacionadas) > 0
  THEN [display |-> "block",
        items |-> [i \in DOMAIN normasRelacionadas |->
                     [href |-> normasRelacionadas[i].link,
                      text |-> normasRelacionadas[i].nome]]]
  ELSE [display |-> "none", items |-> <<>>]

\* a fetch of the related norms settles (in any order) and the rest of
\* displayModalidades runs for the tipoId it was called with
NormasSettle(k, ok) ==
  /\ k \in DOMAIN inflight
  /\ \E rows \in Orderings(JoinNormas(normas, assoc, inflight[k])) :
       LET normasRelacionadas == FetchResult(ok, rows)
       IN /\ normasDiv' = NormasPanel(inflight[k], normasRelacionadas)
          /\ fetched' = [tipoId |-> inflight[k], ok |-> ok, data |-> normasRelacionadas]
  /\ inflight' = SubSeq(inflight, 1, k - 1) \o SubSeq(inflight, k + 1, Len(inflight))
  /\ lista' = ListaAfterFetch(ok, lista)
  /\ UNCHANGED <<feTipos, feModalidades, feNormas, fePhase, loadPending, loadGot,
                 tipoSelect, detalhes, siscalBtn, clicked>>
  /\ UNCHANGED <<apiVars, proxyVars>>

\* tipo.nome.trim().toUpperCase() === "SNUC" (a null nome throws, and the
\* button stays hidden)
NameIs(nome, literal) == ~IsNull(nome) /\ toUpperCase(trim(nome)) = literal
SNUC == <<"S", "N", "U", "C">>
PAGAMENTO == <<"P", "A", "G", "A", "M", "E", "N", "T", "O">>

\* (mutant) the button shown for PAGAMENTO of any tipo
ShowsSiscalAnyTipo(tipo, modalidade) == NameIs(modalidade.nome, PAGAMENTO)
\* the condition under which displayDetalhes shows the button
ShowsSiscal(tipo, modalidade) == NameIs(tipo.nome, SNUC) /\ NameIs(modalidade.nome, PAGAMENTO)

\* the labelled sections displayDetalhes renders: the fields that are not blank
Campos(m) ==
  LET all == << <<"Proporcao", m.proporcao>>, <<"Forma", m.forma>>,
                <<"Especificidades da Area", m.especificidades>>,
                <<"Vantagens", m.vantagens>>, <<"Desvantagens", m.desvantagens>>,
                <<"Documentos Necessarios", m.documentos>>,
                <<"Observacoes", m.observacao>> >>
      Shown(c) == ~IsNull(c[2]) /\ trim(c[2]) # <<>>
  IN SelectSeq(all, Shown)

\* the click listener of a modalidade's <li>, with displayDetalhes(modalidade.id)
ClickModalidade(i) ==
  LET li == lista[i]
      modalidade == Find(feModalidades, "id", li.id)
      hasTipo == Found(feTipos, "id", modalidade.tipo_id)
      tipo == Find(feTipos, "id", modalidade.tipo_id)
  IN /\ i \in DOMAIN lista
     /\ li.listener
     /\ lista' = [n \in DOMAIN lista |-> [lista[n] EXCEPT !.active = (n = i)]]
     /\ clicked' = li.id
     /\ IF hasTipo
        THEN /\ detalhes' = [display |-> "block", modalidade |-> modalidade.id,
                             campos |-> Campos(modalidade)]
             /\ siscalBtn' = IF ShowsSiscal(tipo, modalidade)
                             THEN [display |-> "block", html |-> SiscalLink]
                             ELSE HiddenBtn
        ELSE UNCHANGED <<detalhes, siscalBtn>>
     /\ UNCHANGED <<feTipos, feModalidades, feNormas, fePhase, loadPending, loadGot,
                    tipoSelect, normasDiv, inflight, fetched>>
     /\ UNCHANGED <<apiVars, proxyVars>>

\* the store the page is served from: two tipos, the modalidades of the first
\* (and, or not, one of the second), two normas and their links
PageTipoNames == { SNUC, <<" ", "s", "n", "u", "c">>, <<"S", "N", "U">> }
PageModalidadeNames ==
  { PAGAMENTO, <<"P", "a", "g", "a", "m", "e", "n", "t", "o", " ">>, <<"P", "A", "G", "A">> }
PageModalidade(id, tipoId, nome) ==
  [id |-> id, tipo_id |-> tipoId, nome |-> nome, proporcao |-> <<"a">>, forma |-> <<" ">>,
   especificidades |-> Null, vantagens |-> <<>>, desvantagens |-> Null,
   observacao |-> <<"b">>, documentos |-> Null]
PageLinks ==
  { SetToBag({[tipo_id |-> 1, norma_id |-> 1]}),
    SetToBag({[tipo_id |-> 1, norma_id |-> 1], [tipo_id |-> 2, norma_id |-> 2]}),
    SetToBag({[tipo_id |-> 1, norma_id |-> 1]}) (+) SetToBag({[tipo_id |-> 1, norma_id |-> 1]}) }

InitPage ==
  /\ variant = "libsql"
  /\ \E n \in PageTipoNames :
       tipos = { [id |-> 1, nome |-> n], [id |-> 2, nome |-> <<"A">>] }
  /\ \E n \in PageModalidadeNames, second \in BOOLEAN :
       modalidades = { PageModalidade(1, 1, n), PageModalidade(2, 1, <<"B">>) }
                       \cup (IF second THEN {PageModalidade(3, 2, PAGAMENTO)} ELSE {})
  /\ normas = { [id |-> 1, nome |-> <<"B">>, link |-> <<"a">>, preambulo |-> Null],
                [id |-> 2, nome |-> <<"A">>, link |-> <<"b">>, preambulo |-> <<"a">>] }
  /\ assoc \in PageLinks
  /\ resp = NoResponse
  /\ upstream = <<>>
  /\ PageInit

NextPage ==
  \/ \E endpoint \in Endpoints, ok \in BOOLEAN : LoadSettles(endpoint, ok)
  \/ \E i \in 1..Len(tipoSelect.options) : ChangeTipo(tipoSelect.options[i].value)
  \/ \E k \in 1..Len(inflight), ok \in BOOLEAN : NormasSettle(k, ok)
  \/ \E i \in 1..Len(lista) : ClickModalidade(i)

SpecPage == InitPage /\ [][NextPage]_vars

---------------------------------------------------------------------------
(* Properties of the page. *)

BtnVisible == siscalBtn.display = "block" /\ siscalBtn.html # ""
\* the names of the modalidade clicked since the last change, and of its tipo
ClickedNames ==
  LET modalidade == Find(feModalidades, "id", clicked)
  IN [modalidade |-> modalidade.nome, tipo |-> Find(feTipos, "id", modalidade.tipo_id).nome]
EqualsIgnoringCase(nome, literal) == ~IsNull(nome) /\ toUpperCase(nome) = toUpperCase(literal)
EqualsTrimmedIgnoringCase(nome, literal) ==
  ~IsNull(nome) /\ toUpperCase(trim(nome)) = toUpperCase(literal)

\* C10 (as stated): the button is visible exactly when a modalidade has been
\* clicked since the last change of the selection, its nome equals PAGAMENTO
\* and the nome of its tipo equals SNUC, letter case ignored.
C10_BtnIffNamesEqual ==
  BtnVisible <=> /\ clicked # 0
                 /\ EqualsIgnoringCase(ClickedNames.modalidade, PAGAMENTO)
                 /\ EqualsIgnoringCase(ClickedNames.tipo, SNUC)

\* C10 (amended): as above, the two names being compared after their leading
\* and trailing white space is removed.
C10_BtnIffNamesEqualTrimmed ==
  BtnVisible <=> /\ clicked # 0
                 /\ EqualsTrimmedIgnoringCase(ClickedNames.modalidade, PAGAMENTO)
                 /\ EqualsTrimmedIgnoringCase(ClickedNames.tipo, SNUC)
\* PAGAMENTO of SNUC was clicked and shows the button while a fetch is in flight
C10_Witness ==
  /\ BtnVisible /\ clicked = 1 /\ detalhes.display = "block"
  /\ \E i \in DOMAIN lista : lista[i].id = 1 /\ lista[i].active
  /\ inflight # <<>>

\* the detail panel is hidden and the button container is hidden and empty
PanelsHidden ==
  detalhes.display = "none" /\ siscalBtn.display = "none" /\ siscalBtn.html = ""

\* C11: every change of the selected tipo (to a tipo or to the empty option),
\* whatever the page showed, hides the detail panel and hides and empties the
\* button container in the step that makes the change, before the response of
\* the fetch it issues; they stay so while no modalidade is clicked, and a
\* click that shows them is on a modalidade of the list that change rendered.
C11_ChangeHidesPanels ==
  [][ /\ tipoSelect'.value # tipoSelect.value
           => (PanelsHidden' /\ clicked' = 0 /\ Len(inflight') >= Len(inflight))
      /\ (PanelsHidden /\ clicked' = 0) => PanelsHidden'
      /\ (detalhes' # detalhes /\ detalhes'.display = "block")
           => /\ clicked' # 0
              /\ \E i \in DOMAIN lista : lista[i].listener /\ lista[i].id = clicked'
              /\ Find(feModalidades, "id", clicked').tipo_id = tipoSelect.value
    ]_vars
\* after a modalidade of tipo 1 was shown, tipo 2 was selected: the panels are
\* hidden while the fetch for tipo 2 is awaited
C11_Witness ==
  /\ PanelsHidden /\ clicked = 0 /\ detalhes.modalidade = 1
  /\ tipoSelect.value = 2 /\ inflight # <<>> /\ inflight[Len(inflight)] = 2

\* the initial fetches that failed: they gave [] although the server has rows
LoadFailed == {e \in DOMAIN loadGot : loadGot[e] = <<>> /\ ServerData(e) # <<>>}

\* C12: when one of the three initial fetches has failed, the load ends with
\* the fixed error message in the list, the three collections tipos,
\* modalidades and normas empty, and no tipo offered by the select.
C12_FailedLoadLeavesNothing ==
  (fePhase = "ready" /\ LoadFailed # {})
    => /\ lista = <<MessageLi(ErroAoCarregar)>>
       /\ feTipos = <<>> /\ feModalidades = <<>> /\ feNormas = <<>>
       /\ tipoSelect.options = <<EmptyOption>>

\* the links of a list of normas, as the panel shows them
LinksOf(rows) == [i \in DOMAIN rows |-> [href |-> rows[i].link, text |-> rows[i].nome]]
\* the panel shows exactly these normas, and is hidden when there are none
PanelShows(panel, rows) ==
  /\ panel.items = LinksOf(rows)
  /\ panel.display = IF rows = <<>> THEN "none" ELSE "block"

\* C13: a related-norms response is rendered for the tipo it was fetched for
\* whatever the select shows by then, and the responses in flight settle in
\* any order: the panel can show the normas of a tipo A while the select
\* shows another tipo B whose own response arrived first.
C13_NoStaleGuard ==
  [][ Len(inflight') < Len(inflight)
        => /\ \E k \in DOMAIN inflight : inflight[k] = fetched'.tipoId
           /\ fetched'.ok
                => fetched'.data \in Orderings(JoinNormas(normas, assoc, fetched'.tipoId))
           /\ PanelShows(normasDiv', fetched'.data)
           /\ tipoSelect' = tipoSelect
    ]_vars
\* tipo 1 then tipo 2 were selected; the response for 2 came first and the one
\* for 1 last: the select shows 2 and the panel the normas of 1
C13_Witness ==
  /\ tipoSelect.value = 2 /\ inflight = <<>>
  /\ fetched.tipoId = 1 /\ fetched.ok /\ fetched.data # <<>>
  /\ PanelShows(normasDiv, fetched.data)
  /\ fetched.data \notin Orderings(JoinNormas(normas, assoc, 2))
  /\ JoinNormas(normas, assoc, 2) # <<>>

\* the texts of the <li>s of a list, in order
TextsOf(items) == [i \in DOMAIN items |-> items[i].text]
\* the names of the modalidades of a tipo, in the order of the collection
NamesOfTipo(rows, tipoId) ==
  LET mine == SelectSeq(rows, LAMBDA m : m.tipo_id = tipoId)
  IN [i \in DOMAIN mine |-> mine[i].nome]

\* C14: a change to a tipo T, no other fetch being in flight, lists exactly the
\* names of the in-memory modalidades of T in their order, or the one "none
\* found" message, and issues one fetch; when that fetch settles the panel
\* shows one link per norma returned, and is hidden when none is returned.  A
\* change to the empty option leaves the list empty, hides the panel and
\* issues no fetch.
C14_ChangeRendersTipo ==
  [][ LET T == tipoSelect'.value
          names == NamesOfTipo(feModalidades, T)
      IN /\ (T # tipoSelect.value /\ T # EmptyValue /\ inflight = <<>>)
              => /\ TextsOf(lista') = IF names = <<>> THEN <<NenhumaModalidade>> ELSE names
                 /\ \A i \in DOMAIN lista' : lista'[i].listener = (names # <<>>)
                 /\ inflight' = <<T>>
         /\ (inflight = <<T>> /\ inflight' = <<>>)
              => /\ fetched'.tipoId = T
                 /\ PanelShows(normasDiv', fetched'.data)
                 /\ Len(normasDiv'.items) = Len(fetched'.data)
                 /\ fetched'.ok => lista' = lista
         /\ (T # tipoSelect.value /\ T = EmptyValue)
              => /\ lista' = <<>>
                 /\ normasDiv'.display = "none"
                 /\ inflight' = inflight
    ]_vars
\* tipo 1 is selected, its two modalidades are listed, and its fetch has
\* settled with normas, one link each
C14_Witness ==
  /\ tipoSelect.value = 1 /\ inflight = <<>>
  /\ fetched.tipoId = 1 /\ fetched.ok
  /\ Len(lista) = 2 /\ TextsOf(lista) = NamesOfTipo(feModalidades, 1)
  /\ normasDiv.display = "block" /\ Len(normasDiv.items) = Len(fetched.data)

\* C15: POST /normas-tipos-compensacao checks for no duplicate: when the store
\* does not fail it answers 201 and adds one join row of the pair given, also
\* when that pair is linked already; and GET /tipos/:id/normas returns each
\* norma once per join row linking it to the tipo, so more than once when the
\* pair was posted more than once.
C15_DuplicateLinks ==
  [][ /\ (resp'.op = "POST normas-tipos-compensacao" /\ resp'.dbError = NoError)
           => LET row == [tipo_id |-> resp'.body.tipo_id, norma_id |-> resp'.body.norma_id]
              IN /\ resp'.status = 201
                 /\ CopiesIn(row, assoc') = CopiesIn(row, assoc) + 1
                 /\ BagCardinality(assoc') = BagCardinality(assoc) + 1
      /\ (resp'.op = "GET tipos/:id/normas" /\ resp'.dbError = NoError)
           => /\ \A n \in normas :
                   Occurrences(resp'.data, n.id)
                     = CopiesIn([tipo_id |-> resp'.id, norma_id |-> n.id], assoc)
              /\ Range(resp'.data) \subseteq normas
    ]_vars
\* the same pair was posted twice and the norma is listed twice for the tipo
C15_Witness ==
  /\ resp.op = "GET tipos/:id/normas" /\ resp.status = 200
  /\ Len(resp.data) = 2 /\ resp.data[1] = resp.data[2]
  /\ CopiesIn([tipo_id |-> resp.id, norma_id |-> resp.data[1].id], assoc) = 2

\* C16: when a related-norms fetch fails, the list is replaced by the one
\* error message, which cannot be clicked, and the panel of normas is hidden;
\* the collections tipos, modalidades and normas stay as they were; and the
\* next change of the select renders the list of the tipo chosen again.
C16_FailedFetchReplacesList ==
  [][ /\ (Len(inflight') < Len(inflight) /\ ~fetched'.ok)
           => /\ TextsOf(lista') = <<ErroAoCarregar>>
              /\ \A i \in DOMAIN lista' : ~lista'[i].listener
              /\ normasDiv'.display = "none"
              /\ UNCHANGED <<feTipos, feModalidades, feNormas>>
      /\ (tipoSelect'.value # tipoSelect.value /\ TextsOf(lista) = <<ErroAoCarregar>>)
           => LET T == tipoSelect'.value
                  names == NamesOfTipo(feModalidades, T)
              IN /\ TextsOf(lista') = IF names # <<>> THEN names
                                      ELSE IF T = EmptyValue THEN <<>>
                                      ELSE <<NenhumaModalidade>>
                 /\ \A i \in DOMAIN lista' : lista'[i].listener = (names # <<>>)
    ]_vars
\* the fetch for tipo 1 failed, and after later changes of the select the list
\* of tipo 1 is rendered again, the panel still hidden
C16_Witness ==
  /\ ~fetched.ok /\ fetched.tipoId = 1 /\ tipoSelect.value = 1
  /\ Len(lista) = 2 /\ \A i \in DOMAIN lista : lista[i].listener
  /\ normasDiv.display = "none" /\ feModalidades # <<>>

====
